---- MODULE Spec2Model ----
(***************************************************************************)
(* Model of azure/cli/core/extension/_resolve.py: the resolution of an     *)
(* extension's download URL and digest from the extension index           *)
(* (resolve_from_index) and the lookup of its project URL                  *)
(* (resolve_project_url_from_index).                                       *)
(*                                                                         *)
(* Representation of Python values:                                        *)
(*   - an optional value is None (<<>>) or Some(x) (<<x>>);                *)
(*   - a version string "1.0.0" is the sequence of its dot-separated       *)
(*     release numbers <<1, 0, 0>>, the empty string is <<>>;              *)
(*   - a URL or path string is the sequence of its '/'-separated segments  *)
(*     ("m/x.whl" is <<"m", "x.whl">>, "m/" is <<"m", "">>), the empty     *)
(*     string is <<>>;                                                     *)
(*   - a wheel filename is the record of the groups WHEEL_INFO_RE finds    *)
(*     in it (dist, abi, plat);                                            *)
(*   - the verdict of ext_compat_with_cli on a candidate's metadata is     *)
(*     the metadata field compat.                                          *)
(***************************************************************************)
EXTENDS Integers, Sequences, FiniteSets, TLC

VARIABLES index, cli_ctx, pc, call, result, candidates, candidates_sorted, chosen

vars == <<index, cli_ctx, pc, call, result, candidates, candidates_sorted, chosen>>

\* Longest candidate list the index holds for the extension.
MaxCands == 2

--------------------------------------------------------------------------
\* Python values

None == <<>>

Some(x) == <<x>>

\* Python truthiness of an optional string: neither None nor "".
Truthy(o) == o # None /\ o[1] # <<>>

Last(s) == s[Len(s)]

Front(s) == SubSeq(s, 1, Len(s) - 1)

--------------------------------------------------------------------------
\* pkg_resources.parse_version and the order of parsed versions

RECURSIVE StripZeros(_)
StripZeros(v) ==
    IF v # <<>> /\ Last(v) = 0 THEN StripZeros(Front(v)) ELSE v

\* The comparison key of a parsed release: trailing zeros do not count.
parse_version(v) == StripZeros(v)

\* Order of the keys: that of Python tuples.
RECURSIVE TupleLess(_, _)
TupleLess(a, b) ==
    IF a = <<>> THEN b # <<>>
    ELSE IF b = <<>> THEN FALSE
    ELSE IF Head(a) # Head(b) THEN Head(a) < Head(b)
    ELSE TupleLess(Tail(a), Tail(b))

version_gt(a, b) == TupleLess(b, a)

--------------------------------------------------------------------------
\* The filters

\* A variant that reads the platform tag only.
is_not_platform_specific_plat_only(item) == item.filename.plat = "any"

is_not_platform_specific(item) ==
    item.filename.abi = "none" /\ item.filename.plat = "any"

is_compatible_with_cli_version(item) == item.metadata.compat

\* A variant whose floor is inclusive.
is_greater_or_equal_cur_version(cur_version, item) ==
    IF ~Truthy(cur_version) THEN TRUE
    ELSE ~version_gt(parse_version(cur_version[1]),
                     parse_version(item.metadata.version))

\* _is_greater_than_cur_version(cur_version) applied to item; with no
\* cur_version the filter is None, and filter(None, ...) keeps every
\* (truthy) candidate record.
is_greater_than_cur_version(cur_version, item) ==
    IF ~Truthy(cur_version) THEN TRUE
    ELSE version_gt(parse_version(item.metadata.version),
                    parse_version(cur_version[1]))

\* A variant that applies the floor also under a target_version.
filter_chain_floor_always(cands, cur_version, target_version) ==
    LET f1 == SelectSeq(cands, is_not_platform_specific)
        f2 == SelectSeq(f1, is_compatible_with_cli_version)
        floor(item) == is_greater_than_cur_version(cur_version, item)
    IN  SelectSeq(f2, floor)

\* The filters of resolve_from_index, applied in order.
filter_chain(cands, cur_version, target_version) ==
    LET f1 == SelectSeq(cands, is_not_platform_specific)
        f2 == SelectSeq(f1, is_compatible_with_cli_version)
        floor(item) == is_greater_than_cur_version(cur_version, item)
    IN  IF ~Truthy(target_version) THEN SelectSeq(f2, floor) ELSE f2

--------------------------------------------------------------------------
\* sorted(candidates, key=parse_version(version), reverse=True): stable,
\* candidates of equal key keep their order.

\* A variant that puts a candidate before those of equal key.
RECURSIVE insert_sorted_unstable(_, _)
insert_sorted_unstable(c, s) ==
    IF s = <<>> THEN <<c>>
    ELSE IF ~version_gt(parse_version(Head(s).metadata.version),
                        parse_version(c.metadata.version))
         THEN <<c>> \o s
         ELSE <<Head(s)>> \o insert_sorted_unstable(c, Tail(s))

RECURSIVE insert_sorted(_, _)
insert_sorted(c, s) ==
    IF s = <<>> THEN <<c>>
    ELSE IF version_gt(parse_version(c.metadata.version),
                       parse_version(Head(s).metadata.version))
         THEN <<c>> \o s
         ELSE <<Head(s)>> \o insert_sorted(c, Tail(s))

RECURSIVE sorted_desc(_)
sorted_desc(s) ==
    IF s = <<>> THEN <<>>
    ELSE insert_sorted(Last(s), sorted_desc(Front(s)))

--------------------------------------------------------------------------
\* posixpath.join(a, 'extensions', whl_name) for a non-empty a and
\* components that hold no '/': a separator is added unless the path so
\* far ends with one.

path_append(path, b) ==
    IF Last(path) = "" THEN Front(path) \o <<b>> ELSE path \o <<b>>

posixpath_join(a, b, c) == path_append(path_append(a, b), c)

\* download_url.split('/')[-1]
whl_name(download_url) == Last(download_url)

\* A variant that rewrites whatever index URL is configured.
mirror_rewrite_ignoring_config(ctx, download_url) ==
    LET azmirror_endpoint ==
            IF ctx # None /\ ctx[1].endpoint # None THEN ctx[1].endpoint ELSE None
    IN  IF Truthy(azmirror_endpoint)
        THEN posixpath_join(azmirror_endpoint[1], "extensions", whl_name(download_url))
        ELSE download_url

\* The mirror rewrite of the download URL.
mirror_rewrite(ctx, download_url) ==
    LET azmirror_endpoint ==
            IF ctx # None /\ ctx[1].endpoint # None THEN ctx[1].endpoint ELSE None
        config_index_url == IF ctx # None THEN ctx[1].index_url ELSE None
    IN  IF Truthy(azmirror_endpoint) /\ ~Truthy(config_index_url)
        THEN posixpath_join(azmirror_endpoint[1], "extensions", whl_name(download_url))
        ELSE download_url

--------------------------------------------------------------------------
\* Outcomes of a call

Raise(kind, msg, version) ==
    [kind |-> kind, msg |-> msg, version |-> version, url |-> None, digest |-> None]

Return(url, digest) ==
    [kind |-> "return", msg |-> "", version |-> None, url |-> Some(url), digest |-> digest]

NoResult == [kind |-> "none", msg |-> "", version |-> None, url |-> None, digest |-> None]

\* get_index_extensions(...).get(extension_name, [])
index_get(idx, name) == IF name \in DOMAIN idx THEN idx[name] ELSE <<>>

\* A variant that matches the target by parsed version.
select_chosen_semantic(srt, target_version) ==
    IF Truthy(target_version)
    THEN LET m == SelectSeq(srt, LAMBDA c : parse_version(c.metadata.version)
                                              = parse_version(target_version[1]))
         IN  IF m = <<>> THEN None ELSE Some(m[1])
    ELSE Some(srt[1])

\* A variant that falls back to the latest when no version matches.
select_chosen_fallback_latest(srt, target_version) ==
    IF Truthy(target_version)
    THEN LET m == SelectSeq(srt, LAMBDA c : c.metadata.version = target_version[1])
         IN  IF m = <<>> THEN Some(srt[1]) ELSE Some(m[1])
    ELSE Some(srt[1])

\* A variant that prefers a candidate with a downloadUrl.
select_chosen_with_url(srt, target_version) ==
    LET m == IF Truthy(target_version)
             THEN SelectSeq(srt, LAMBDA c : c.metadata.version = target_version[1])
             ELSE srt
        u == SelectSeq(m, LAMBDA c : Truthy(c.downloadUrl))
    IN  IF m = <<>> THEN None ELSE IF u = <<>> THEN Some(m[1]) ELSE Some(u[1])

\* The selection among the ranked candidates; None stands for IndexError.
select_chosen(srt, target_version) ==
    IF Truthy(target_version)
    THEN LET m == SelectSeq(srt, LAMBDA c : c.metadata.version = target_version[1])
         IN  IF m = <<>> THEN None ELSE Some(m[1])
    ELSE Some(srt[1])

\* A variant that loses the digest when the URL is rewritten.
finish_digest_lost_on_rewrite(ctx, c) ==
    IF ~Truthy(c.downloadUrl)
    THEN Raise("NoExtensionCandidatesError", "No download url found.", None)
    ELSE LET url == mirror_rewrite(ctx, c.downloadUrl[1])
         IN  Return(url, IF url = c.downloadUrl[1] THEN c.sha256Digest ELSE None)

\* The end of resolve_from_index, from the chosen candidate on: its URL
\* and digest, the URL check, the mirror rewrite.
finish(ctx, c) ==
    IF ~Truthy(c.downloadUrl)
    THEN Raise("NoExtensionCandidatesError", "No download url found.", None)
    ELSE Return(mirror_rewrite(ctx, c.downloadUrl[1]), c.sha256Digest)

\* resolve_from_index: the outcome and the locals it ends with.
resolve_from_index(idx, ctx, extension_name, cur_version, target_version) ==
    LET cands == index_get(idx, extension_name)
        flt   == filter_chain(cands, cur_version, target_version)
        srt   == sorted_desc(flt)
        sel   == select_chosen(srt, target_version)
        frame(r, f, s, c) ==
            [result |-> r, candidates |-> f, candidates_sorted |-> s, chosen |-> c]
    IN  IF cands = <<>>
        THEN frame(Raise("NoExtensionCandidatesError", "No extension found with name", None),
                   cands, <<>>, None)
        ELSE IF flt = <<>>
        THEN frame(Raise("NoExtensionCandidatesError", "No suitable extensions found.", None),
                   flt, <<>>, None)
        ELSE IF sel = None
        THEN frame(Raise("NoExtensionCandidatesError", "Extension with version not found",
                         target_version),
                   flt, srt, None)
        ELSE frame(finish(ctx, sel[1]), flt, srt, sel)

\* A variant that looks for the first candidate with a home page.
resolve_project_url_first_with_home(idx, extension_name) ==
    LET cands == index_get(idx, extension_name)
        h == SelectSeq(cands, LAMBDA c : c.metadata.home # None)
    IN  IF cands = <<>>
        THEN Raise("NoExtensionCandidatesError", "No extension found with name", None)
        ELSE IF h = <<>>
        THEN Raise("CLIError", "Could not find project information for extension", None)
        ELSE Return(h[1].metadata.home[1], None)

\* resolve_project_url_from_index
resolve_project_url_from_index(idx, extension_name) ==
    LET cands == index_get(idx, extension_name)
    IN  IF cands = <<>>
        THEN Raise("NoExtensionCandidatesError", "No extension found with name", None)
        ELSE IF cands[1].metadata.home = None
        THEN Raise("CLIError", "Could not find project information for extension", None)
        ELSE Return(cands[1].metadata.home[1], None)

--------------------------------------------------------------------------
\* Inputs

ExtName == "ext"

Dist == <<"ext1", "ext2", "ext3", "ext4", "ext5">>

Digest == <<"sha1", "sha2", "sha3", "sha4", "sha5">>

Versions == {<<1>>, <<1, 0>>, <<1, 1>>}

CurVersions == {None, Some(<<>>), Some(<<1, 0>>), Some(<<1, 1>>)}

TargetVersions == {None, Some(<<>>), Some(<<1>>), Some(<<1, 0>>)}

Tags == {<<"none", "any">>, <<"none", "win">>, <<"cp38", "any">>}

UrlOf(i) == <<"https:", "", "pub", Dist[i]>>

HomeOf(i) == <<"https:", "", "home", Dist[i]>>

Mirror == <<"https:", "", "mirror">>

MirrorSlash == <<"https:", "", "mirror", "">>

IndexOverride == <<"https:", "", "my", "index.json">>

Candidate(i, sh) ==
    [filename     |-> [dist |-> Dist[i], abi |-> sh.tags[1], plat |-> sh.tags[2]],
     metadata     |-> [version |-> sh.version, compat |-> sh.compat, home |-> sh.home[i]],
     downloadUrl  |-> sh.url[i],
     sha256Digest |-> sh.digest[i]]

\* A candidate is drawn by its shape; the fields that name it (dist, URL,
\* digest, home page) follow its position in the index.
Shapes(TagSet, CompatSet, VersionSet, UrlSet, DigestSet, HomeSet) ==
    [tags : TagSet, compat : CompatSet, version : VersionSet,
     url : UrlSet, digest : DigestSet, home : HomeSet]

\* The index maps the extension's name to at most MaxCands candidates, or
\* does not hold the name at all.
IsIndex(idx, ShapeSet) ==
    \/ idx = <<>>
    \/ \E k \in 0..MaxCands : \E sh \in [1..k -> ShapeSet] :
          idx = [n \in {ExtName} |-> [i \in 1..k |-> Candidate(i, sh[i])]]

NoUrl == [i \in 1..Len(Dist) |-> None]

EmptyUrl == [i \in 1..Len(Dist) |-> Some(<<>>)]

PubUrl == [i \in 1..Len(Dist) |-> Some(UrlOf(i))]

DirUrl == [i \in 1..Len(Dist) |-> Some(<<"https:", "", "pub", "">>)]

NoDigest == [i \in 1..Len(Dist) |-> None]

ShaDigest == [i \in 1..Len(Dist) |-> Some(Digest[i])]

NoHome == [i \in 1..Len(Dist) |-> None]

HomeUrl == [i \in 1..Len(Dist) |-> Some(HomeOf(i))]

NoCall == [op |-> "none", extension_name |-> ExtName,
           cur_version |-> None, target_version |-> None]

InitCall ==
    /\ pc = "idle"
    /\ call = NoCall
    /\ result = NoResult
    /\ candidates = <<>>
    /\ candidates_sorted = <<>>
    /\ chosen = None

\* The host context: absent, or the cloud's mirror endpoint (None when
\* has_endpoint_set is false) and the configured extension.index_url.
Contexts ==
    {None} \cup
    {Some([endpoint |-> e, index_url |-> u]) :
        e \in {None, Some(<<>>), Some(Mirror), Some(MirrorSlash)},
        u \in {None, Some(<<>>), Some(IndexOverride)}}

\* The three parts of the code read disjoint fields of a candidate, so the
\* inputs vary one group of fields at a time.
\* Selection: the fields the filters, the ranking and the URL check read.
InitSelection ==
    /\ IsIndex(index, Shapes(Tags, BOOLEAN, Versions, {NoUrl, PubUrl},
                               {ShaDigest}, {NoHome}))
    /\ cli_ctx = None

\* Result: the URL (empty, a file, a directory) and digest of universal,
\* compatible candidates, under every host context.
InitResult ==
    /\ IsIndex(index, Shapes({<<"none", "any">>}, {TRUE}, {<<1>>, <<1, 1>>},
                               {EmptyUrl, PubUrl, DirUrl},
                               {NoDigest, ShaDigest}, {NoHome}))
    /\ cli_ctx \in Contexts

\* Project URL: the home page, on candidates of every kind.
InitProject ==
    /\ IsIndex(index, Shapes({<<"none", "any">>, <<"cp38", "win">>}, BOOLEAN,
                               {<<1>>, <<1, 1>>}, {PubUrl}, {ShaDigest},
                               {NoHome, HomeUrl}))
    /\ cli_ctx = None

Init ==
    /\ InitSelection \/ InitResult \/ InitProject
    /\ InitCall

--------------------------------------------------------------------------
\* Operations

ResolveFromIndex ==
    /\ pc = "idle"
    /\ \E cur \in CurVersions, tgt \in TargetVersions :
         LET r == resolve_from_index(index, cli_ctx, ExtName, cur, tgt)
         IN  /\ call' = [op |-> "resolve_from_index", extension_name |-> ExtName,
                         cur_version |-> cur, target_version |-> tgt]
             /\ result' = r.result
             /\ candidates' = r.candidates
             /\ candidates_sorted' = r.candidates_sorted
             /\ chosen' = r.chosen
    /\ pc' = "done"
    /\ UNCHANGED <<index, cli_ctx>>

ResolveProjectUrlFromIndex ==
    /\ pc = "idle"
    /\ call' = [op |-> "resolve_project_url_from_index", extension_name |-> ExtName,
                cur_version |-> None, target_version |-> None]
    /\ result' = resolve_project_url_from_index(index, ExtName)
    /\ pc' = "done"
    /\ UNCHANGED <<index, cli_ctx, candidates, candidates_sorted, chosen>>

Next == ResolveFromIndex \/ ResolveProjectUrlFromIndex

Spec == Init /\ [][Next]_vars

--------------------------------------------------------------------------
\* Vocabulary of the properties

Cands == index_get(index, call.extension_name)

Resolved == pc = "done" /\ call.op = "resolve_from_index"

Succeeded == Resolved /\ result.kind = "return"

TargetGiven == Truthy(call.target_version)

CurGiven == Truthy(call.cur_version)

Parsed(c) == parse_version(c.metadata.version)

Universal(c) == c.filename.abi = "none" /\ c.filename.plat = "any"

\* Position of a candidate in the index (filenames are distinct).
IndexPos(c) == CHOOSE i \in 1..Len(Cands) : Cands[i].filename = c.filename

Survivors == {candidates[i] : i \in 1..Len(candidates)}

Failed(msg) == result.kind = "NoExtensionCandidatesError" /\ result.msg = msg

--------------------------------------------------------------------------
\* C1: with no target_version, a successful resolve_from_index chooses a
\* survivor of the filters with no survivor of strictly greater parsed
\* version, and among the survivors of that same parsed version the one
\* that comes first in the index.
C1_LatestFirstInIndex ==
    (Succeeded /\ ~TargetGiven) =>
        /\ chosen # None
        /\ chosen[1] \in Survivors
        /\ \A s \in Survivors :
             /\ ~version_gt(Parsed(s), Parsed(chosen[1]))
             /\ Parsed(s) = Parsed(chosen[1]) => IndexPos(chosen[1]) <= IndexPos(s)
        /\ result.digest = chosen[1].sha256Digest

\* A tie at the top: two survivors of equal highest parsed version, in
\* two spellings; the earlier one is chosen.
C1_Witness ==
    /\ Succeeded /\ ~TargetGiven
    /\ \E s \in Survivors :
         /\ s # chosen[1]
         /\ Parsed(s) = Parsed(chosen[1])
         /\ s.metadata.version # chosen[1].metadata.version
         /\ IndexPos(chosen[1]) < IndexPos(s)

\* C2: with a target_version, the chosen candidate's raw version string is
\* target_version itself, whatever its rank; a survivor that is only
\* semantically equal is not chosen; with no survivor of that exact string
\* the call fails with 'Extension with version <target_version> not found'.
C2_ExactVersionString ==
    (Resolved /\ TargetGiven) =>
        /\ chosen # None => chosen[1].metadata.version = call.target_version[1]
        /\ Succeeded => chosen # None
        /\ (/\ Survivors # {}
            /\ \A s \in Survivors : s.metadata.version # call.target_version[1])
           => /\ Failed("Extension with version not found")
              /\ result.version = call.target_version

\* The exact string is chosen although a semantically equal survivor of
\* another spelling ranks before it.
C2_Witness ==
    /\ Succeeded /\ TargetGiven
    /\ chosen[1] # candidates_sorted[1]
    /\ Parsed(candidates_sorted[1]) = Parsed(chosen[1])
    /\ candidates_sorted[1].metadata.version # call.target_version[1]

\* C3: with a target_version the version floor is not applied, even with
\* a cur_version: when the index holds a universal, compatible candidate
\* of that version string, such a candidate is selected, also when its
\* parsed version is not greater than the parsed cur_version.
C3_TargetSkipsFloor ==
    (/\ Resolved /\ TargetGiven
     /\ \E i \in 1..Len(Cands) :
          /\ Universal(Cands[i])
          /\ Cands[i].metadata.compat
          /\ Cands[i].metadata.version = call.target_version[1])
    => /\ chosen # None
       /\ chosen[1].metadata.version = call.target_version[1]
       /\ Universal(chosen[1])
       /\ chosen[1].metadata.compat
       /\ Truthy(chosen[1].downloadUrl) => Succeeded

\* The selected version is below the cur_version given with it.
C3_Witness ==
    /\ Succeeded /\ TargetGiven /\ CurGiven
    /\ version_gt(parse_version(call.cur_version[1]), Parsed(chosen[1]))

\* C4: the candidate a successful resolve_from_index chooses is universal
\* (ABI tag 'none', platform tag 'any') and compatible with the host, with
\* or without a target_version.
C4_UniversalCompatible ==
    (Resolved /\ chosen # None) =>
        /\ chosen[1].filename.abi = "none"
        /\ chosen[1].filename.plat = "any"
        /\ chosen[1].metadata.compat

\* A platform-specific candidate of the target version, earlier in the
\* index than the chosen one, is passed over.
C4_Witness ==
    /\ Succeeded /\ TargetGiven
    /\ \E i \in 1..Len(Cands) :
         /\ ~Universal(Cands[i])
         /\ Cands[i].metadata.compat
         /\ Cands[i].metadata.version = call.target_version[1]
         /\ i < IndexPos(chosen[1])

\* C5: with no target_version and a cur_version, every survivor's parsed
\* version is strictly greater than the parsed cur_version; with no
\* cur_version the floor removes no universal, compatible candidate.
C5_StrictFloor ==
    (Resolved /\ ~TargetGiven) =>
        /\ CurGiven =>
             \A s \in Survivors \cup (IF chosen = None THEN {} ELSE {chosen[1]}) :
                 version_gt(Parsed(s), parse_version(call.cur_version[1]))
        /\ ~CurGiven =>
             \A i \in 1..Len(Cands) :
                 (Universal(Cands[i]) /\ Cands[i].metadata.compat)
                     => Cands[i] \in Survivors

\* A candidate whose version equals cur_version (in another spelling) is
\* excluded while a greater one survives.
C5_Witness ==
    /\ Succeeded /\ ~TargetGiven /\ CurGiven
    /\ \E i \in 1..Len(Cands) :
         /\ Universal(Cands[i]) /\ Cands[i].metadata.compat
         /\ Parsed(Cands[i]) = parse_version(call.cur_version[1])
         /\ Cands[i].metadata.version # call.cur_version[1]
         /\ Cands[i] \notin Survivors

\* Whether the mirror rewrite applies: the host context declares a mirror
\* endpoint and the local configuration sets no index URL.
MirrorDeclared == cli_ctx # None /\ Truthy(cli_ctx[1].endpoint)

IndexUrlConfigured == cli_ctx # None /\ Truthy(cli_ctx[1].index_url)

\* The endpoint as a directory: without the separator it may end with.
EndpointDir ==
    LET e == cli_ctx[1].endpoint[1]
    IN  IF e[Len(e)] = "" THEN SubSeq(e, 1, Len(e) - 1) ELSE e

\* C6: a successful resolve_from_index returns
\* <mirror endpoint>/extensions/<last segment of the chosen downloadUrl>
\* when a mirror endpoint is declared and no index URL is configured, and
\* the chosen candidate's downloadUrl unchanged in every other case.
C6_MirrorRewrite ==
    Succeeded =>
        IF MirrorDeclared /\ ~IndexUrlConfigured
        THEN LET u == chosen[1].downloadUrl[1]
             IN  result.url = Some(EndpointDir \o <<"extensions", u[Len(u)]>>)
        ELSE result.url = chosen[1].downloadUrl

\* The rewrite applies, and drops the directory of the original URL.
C6_Witness ==
    /\ Succeeded
    /\ MirrorDeclared /\ ~IndexUrlConfigured
    /\ result.url # chosen[1].downloadUrl
    /\ result.url[1][Len(result.url[1])] = chosen[1].filename.dist

\* The candidate the selection rule designates among the ranked survivors:
\* the first of version string target_version, or the first of all.
Designated ==
    LET m == IF TargetGiven
             THEN {i \in 1..Len(candidates_sorted) :
                     candidates_sorted[i].metadata.version = call.target_version[1]}
             ELSE 1..Len(candidates_sorted)
    IN  IF m = {} THEN None
        ELSE Some(candidates_sorted[CHOOSE i \in m : \A j \in m : i <= j])

\* The candidates of the index that pass the filters of the call.
Passing ==
    {i \in 1..Len(Cands) :
        /\ Universal(Cands[i])
        /\ Cands[i].metadata.compat
        /\ (TargetGiven \/ ~CurGiven
            \/ version_gt(Parsed(Cands[i]), parse_version(call.cur_version[1])))}

C8_NoUrlIsTerminal ==
    (Resolved /\ Designated # None /\ ~Truthy(Designated[1].downloadUrl)) =>
        /\ Failed("No download url found.")
        /\ result.url = None
        /\ chosen = Designated

\* Another survivor has a downloadUrl and the mirror would apply.
C8_Witness ==
    /\ Resolved /\ Failed("No download url found.")
    /\ MirrorDeclared /\ ~IndexUrlConfigured
    /\ \E s \in Survivors : Truthy(s.downloadUrl)

\* C9: resolve_project_url_from_index returns the Home project URL of the
\* first candidate of the index, unfiltered and unsorted; it fails with
\* NoExtensionCandidatesError when the name has no candidate and with
\* CLIError when the first candidate has no such field, whatever the
\* later candidates hold.
C9_ProjectUrlOfFirst ==
    (pc = "done" /\ call.op = "resolve_project_url_from_index") =>
        IF Cands = <<>>
        THEN Failed("No extension found with name")
        ELSE IF Cands[1].metadata.home = None
        THEN result.kind = "CLIError"
        ELSE result.kind = "return" /\ result.url = Cands[1].metadata.home

\* The URL comes from a platform-specific, incompatible candidate that is
\* not the latest, while a later candidate has no Home.
C9_Witness ==
    /\ pc = "done" /\ call.op = "resolve_project_url_from_index"
    /\ result.kind = "return"
    /\ ~Universal(Cands[1]) /\ ~Cands[1].metadata.compat
    /\ \E i \in 2..Len(Cands) :
         /\ version_gt(Parsed(Cands[i]), Parsed(Cands[1]))
         /\ Cands[i].metadata.home = None

\* C10: the digest a successful resolve_from_index returns is the
\* sha256Digest of the candidate whose downloadUrl made the returned URL,
\* unchanged by the mirror rewrite; an absent digest is returned absent.
C10_DigestOfChosen ==
    Succeeded =>
        /\ chosen # None
        /\ result.digest = Cands[IndexPos(chosen[1])].sha256Digest
        /\ LET u == Cands[IndexPos(chosen[1])].downloadUrl[1]
               r == result.url[1]
           IN  r[Len(r)] = u[Len(u)]

\* The URL is rewritten, the chosen candidate is not the first of the
\* index and has no digest, while the first one has.
C10_Witness ==
    /\ Succeeded
    /\ MirrorDeclared /\ ~IndexUrlConfigured
    /\ IndexPos(chosen[1]) > 1
    /\ result.digest = None
    /\ Cands[1].sha256Digest # None
    /\ Truthy(Cands[1].downloadUrl)

====
